---- MODULE Spec2Model ----
(***************************************************************************)
(* A model of the WEwr data collector: the key-rotating tRPC client        *)
(* (src/src/api_client.py), the history store and the spike cleaner        *)
(* (src/src/data_processor.py).                                            *)
(*                                                                         *)
(* Time is counted in tenths of a second (the granularity of the 0.1 s     *)
(* safety margin of _get_valid_key).  Samples of a series are counted in   *)
(* units of 10^-5, so that round(x, 4) rounds to a multiple of Unit.       *)
(***************************************************************************)
EXTENDS Integers, Sequences, FiniteSets, TLC

VARIABLES
    api_keys,      \* TRPCClient.api_keys: the number of configured keys, keys are 1..api_keys
    key_usage,     \* TRPCClient._key_usage: key -> deque(maxlen=Quota) of issuance times
    key_cycle,     \* TRPCClient._key_cycle: index of the key next(cycle) yields next
    now,           \* time.time()
    issued,        \* history: key -> every time _get_valid_key appended for that key
    op,            \* the client method running: "none", "acquire", "call", "batch"
    pc,            \* the position inside _get_valid_key / the running method;
                   \* "RecursionError" when that error leaves _get_valid_key
    tried,         \* the loop counter of `for _ in range(len(self.api_keys))`
    key,           \* the local `key` of _get_valid_key, then of its caller
    slept,         \* history: the time.sleep() calls of the running _get_valid_key
    nesting,       \* the number of nested calls of the running _get_valid_key
    calls,         \* batch_call: len(calls); the calls are 1..calls
    raise_on_error,\* batch_call: its raise_on_error argument
    i,             \* batch_call: the loop variable, the offset of the chunk
    results,       \* batch_call: the list it builds
    resp,          \* batch_call: what requests.get brought for the last chunk requested
    responses,     \* history: what requests.get brought for each chunk of this batch_call
    outcome,       \* batch_call, call: "none", "running", "returned" or "raised"
    value,         \* call: what it returned
    sent,          \* history: the requests.get calls of the running batch_call or call
    labels,        \* history["labels"]
    items,         \* history["items"]: entity -> metric -> list of samples
    current_data,  \* _append_metrics: the snapshot of the last call
    glob,          \* clean_history: (glob_min, glob_thresh), numerators over ThrDen
    todo,          \* clean_history: the (entity, metric) pairs its loops have yet to reach, in order
    total_fixes,   \* clean_history: the fixes counted so far
    hpc,           \* clean_history: "idle", "loop", "done" or "RecursionError"
    original,      \* history: history["items"] as clean_history was called with it
    series,        \* _smooth_series: the list it was called with
    min_abs_val,   \* _smooth_series: its second argument, the numerator over ThrDen
    min_val_thresh,\* _smooth_series: its third argument, the numerator over ThrDen
    cleaned,       \* _smooth_series: the copy the innermost call works on
    changes_count, \* _smooth_series: the fixes counted by the calls so far
    depth,         \* _smooth_series: the number of nested calls
    spc,           \* _smooth_series: "idle", "pass", "done" or "RecursionError"
    run,           \* 1: a call on an input; 2: the call on the result of run 1
    prior,         \* history: what run 1 returned, once run 2 has begun
    failing,       \* the server: the requests it answers with an item-level error
    queue,         \* collect_company_stats: the frontier of (parent, cursor) entries
    chunk,         \* collect_company_stats: the entries of the round under way
    all_user_ids,  \* collect_company_stats: the set of discovered ids
    ci,            \* collect_company_stats: the index of `for i, res in enumerate(results)`
    cpc,           \* collect_company_stats: "idle", "while", "call", "results", "done", "raised"
    processed,     \* history: the entries whose result the for loop has examined
    skipped,       \* history: the entries whose result carried an error
    returned_ids   \* history: the ids of the pages batch_call returned without error

poolVars == <<api_keys, key_usage, key_cycle, now, issued, op, pc, tried, key, slept, nesting>>

batchVars == <<calls, raise_on_error, i, results, resp, responses, outcome, value, sent>>

storeVars == <<labels, items, current_data, glob, todo, total_fixes, hpc, original>>

smoothVars ==
    <<series, min_abs_val, min_val_thresh, cleaned, changes_count, depth, spc, run, prior>>

crawlVars ==
    <<failing, queue, chunk, all_user_ids, ci, cpc, processed, skipped, returned_ids>>

vars == <<poolVars, batchVars, storeVars, smoothVars, crawlVars>>

----------------------------------------------------------------------------
(* Bounds of the model. *)

MaxKeys == 2        \* the number of keys configured is 1..MaxKeys
Quota == 2          \* requests per key and window: 200 in the source, scaled down
MaxIssues == 5      \* no method starts once this many keys were issued
TickLimit == 700    \* time passes by itself up to here, and while _get_valid_key is blocked
BATCH_SIZE == 2     \* TRPCClient.BATCH_SIZE: 50 in the source, scaled down
MaxCalls == 3       \* len(calls) is 0..MaxCalls
MAX_HISTORY_POINTS == 3  \* config.MAX_HISTORY_POINTS: 2016 in the source, scaled down
MaxAppends == 5     \* _append_metrics is called at most this often
MaxLen == 5         \* the series given to _smooth_series have up to MaxLen samples
RecursionLimit == 10  \* the nesting at which CPython raises RecursionError: 1000, scaled down
MaxParents == 3     \* the crawl starts from the parents 1..MaxParents
MaxPages == 2       \* the server has MaxPages pages for every parent

(* Program constants. *)

TicksPerSecond == 10
W == 60 * TicksPerSecond          \* the 60 s window
SleepMargin == 1                  \* the 0.1 s added to sleep_time
TickSteps == {W \div 2, W}        \* the amounts by which time passes between two steps

Keys == 1 .. api_keys

Max(a, b) == IF a >= b THEN a ELSE b

SetMin(S) == CHOOSE x \in S : \A y \in S : x <= y

----------------------------------------------------------------------------
(* TRPCClient.__init__ and _get_valid_key *)

DequeAppendUnbounded(history, t) == Append(history, t)

DequeAppendRestart(history, t) ==
    IF Len(history) < Quota THEN Append(history, t) ELSE <<t>>

\* deque(maxlen=Quota).append(t): the oldest entry is dropped when full
DequeAppend(history, t) ==
    IF Len(history) < Quota THEN Append(history, t)
    ELSE Append(Tail(history), t)

FirstInCycle(c) == 1

NextInCycle(c) == IF c = api_keys THEN 1 ELSE c + 1

TotalIssued == LET RECURSIVE Sum(_)
                   Sum(k) == IF k = 0 THEN 0 ELSE Len(issued[k]) + Sum(k - 1)
               IN Sum(api_keys)

\* no client is constructed yet
PoolInit ==
    /\ api_keys = 0
    /\ key_usage = <<>>
    /\ key_cycle = 1
    /\ now = 0
    /\ issued = <<>>
    /\ op = "new"
    /\ pc = "idle"
    /\ tried = 0
    /\ key = 0
    /\ slept = <<>>
    /\ nesting = 0

\* TRPCClient(api_keys), lines 19-27, for a non-empty list of keys
NewClient ==
    /\ op = "new"
    /\ \E n \in 1 .. MaxKeys :
          /\ api_keys' = n
          /\ key_usage' = [k \in 1 .. n |-> <<>>]
          /\ issued' = [k \in 1 .. n |-> <<>>]
    /\ key_cycle' = 1
    /\ op' = "none"
    /\ UNCHANGED <<now, pc, tried, key, slept, nesting>>
    /\ UNCHANGED <<batchVars, storeVars, smoothVars, crawlVars>>

\* a caller enters _get_valid_key
EnterGetValidKey ==
    /\ pc' = "scan"
    /\ tried' = 0
    /\ key' = 0
    /\ slept' = <<>>
    /\ nesting' = 1

HasQuotaOffByOne(history) == Len(history) <= Quota

\* the key has quota left (line 37)
HasQuota(history) == Len(history) < Quota

OldestExpiredOrEqual(history, t) == t - Head(history) >= W

\* the oldest request is older than the window (line 42)
OldestExpired(history, t) == t - Head(history) > W

\* _get_valid_key is running and no key can be issued at the present time
Blocked ==
    /\ pc \in {"scan", "exhausted"}
    /\ \A k \in Keys : Len(key_usage[k]) >= Quota /\ now - Head(key_usage[k]) <= W

\* time passes between two steps of the program
Tick ==
    /\ now <= TickLimit \/ Blocked
    /\ \E d \in TickSteps : now' = now + d
    /\ UNCHANGED <<api_keys, key_usage, key_cycle, issued, op, pc, tried, key, slept, nesting>>
    /\ UNCHANGED <<batchVars, storeVars, smoothVars, crawlVars>>

\* one iteration of the for loop, lines 32-44
ScanKey ==
    /\ pc = "scan"
    /\ LET k == key_cycle
           history == key_usage[k]
       IN /\ key_cycle' = NextInCycle(k)
          /\ key' = k
          /\ IF HasQuota(history)
             THEN /\ key_usage' = [key_usage EXCEPT ![k] = DequeAppend(history, now)]
                  /\ issued' = [issued EXCEPT ![k] = Append(@, now)]
                  /\ pc' = "return"
                  /\ tried' = tried
             ELSE IF OldestExpired(history, now)
             THEN /\ pc' = "append"
                  /\ UNCHANGED <<key_usage, issued, tried>>
             ELSE /\ tried' = tried + 1
                  /\ pc' = IF tried + 1 = api_keys THEN "exhausted" ELSE "scan"
                  /\ UNCHANGED <<key_usage, issued>>
    /\ UNCHANGED <<api_keys, now, op, slept, nesting>>
    /\ UNCHANGED <<batchVars, storeVars, smoothVars, crawlVars>>

\* line 43: the second time.time() of the expired branch
AppendExpired ==
    /\ pc = "append"
    /\ key_usage' = [key_usage EXCEPT ![key] = DequeAppend(@, now)]
    /\ issued' = [issued EXCEPT ![key] = Append(@, now)]
    /\ pc' = "return"
    /\ UNCHANGED <<api_keys, key_cycle, now, op, tried, key, slept, nesting>>
    /\ UNCHANGED <<batchVars, storeVars, smoothVars, crawlVars>>

\* lines 47-50
WaitTime(k, t) == Max(0, W - (t - Head(key_usage[k])))

SleepTime(t) == SetMin({WaitTime(k, t) : k \in Keys})

\* lines 47-54: every key is exhausted; sleep, then call _get_valid_key again, which
\* raises RecursionError at the interpreter's limit of nested calls
Exhausted ==
    /\ pc = "exhausted"
    /\ LET sleep_time == SleepTime(now)
       IN IF sleep_time > 0
          THEN /\ now' = now + sleep_time + SleepMargin
               /\ slept' = Append(slept, sleep_time + SleepMargin)
          ELSE UNCHANGED <<now, slept>>
    /\ IF nesting < RecursionLimit
       THEN /\ pc' = "scan"
            /\ tried' = 0
            /\ nesting' = nesting + 1
       ELSE /\ pc' = "RecursionError"
            /\ UNCHANGED <<tried, nesting>>
    /\ UNCHANGED <<api_keys, key_usage, key_cycle, issued, op, key>>
    /\ UNCHANGED <<batchVars, storeVars, smoothVars, crawlVars>>

\* a direct call of _get_valid_key
StartAcquire ==
    /\ op = "none"
    /\ TotalIssued < MaxIssues
    /\ op' = "acquire"
    /\ EnterGetValidKey
    /\ UNCHANGED <<api_keys, key_usage, key_cycle, now, issued>>
    /\ UNCHANGED <<batchVars, storeVars, smoothVars, crawlVars>>

ReturnAcquire ==
    /\ op = "acquire"
    /\ pc = "return"
    /\ op' = "none"
    /\ pc' = "idle"
    /\ UNCHANGED <<api_keys, key_usage, key_cycle, now, issued, tried, key, slept, nesting>>
    /\ UNCHANGED <<batchVars, storeVars, smoothVars, crawlVars>>

----------------------------------------------------------------------------
(* TRPCClient.batch_call *)

\* call has not returned a value
NoValue == [kind |-> "none"]

\* {} : the placeholder of lines 116 and 120
Placeholder == [kind |-> "empty"]

\* element idx (0-based) of the JSON array the server sent for the request of the
\* chunk at offset `off`
ServerElement(off, idx) == [kind |-> "server", request |-> off, index |-> idx]

ChunkLenFull(off) == BATCH_SIZE

\* calls[i : i + BATCH_SIZE], as the number of its calls
ChunkLen(off) == IF calls - off < BATCH_SIZE THEN calls - off ELSE BATCH_SIZE

NumChunks(n) == (n + BATCH_SIZE - 1) \div BATCH_SIZE

\* what requests.get can bring for a chunk of n calls: an exception, or a response
\* with a status and a body: an empty text, a JSON value that is no array, or a
\* JSON array of some length
Bodies(n) ==
    {[type |-> "empty", len |-> 0], [type |-> "nonlist", len |-> 0]} \cup
    {[type |-> "list", len |-> m] : m \in {n - 1, n, n + 1}}

Responses(n) ==
    {[exception |-> TRUE, ok |-> FALSE, body |-> [type |-> "empty", len |-> 0]]} \cup
    [exception : {FALSE}, ok : BOOLEAN, body : Bodies(n)]

NoResponse == [exception |-> FALSE, ok |-> FALSE, body |-> [type |-> "none", len |-> 0]]

\* line 108: resp.json() if resp.text else []
Decode(off, body) ==
    IF body.type = "empty" THEN [list |-> TRUE, elems |-> <<>>]
    ELSE IF body.type = "nonlist" THEN [list |-> FALSE, elems |-> <<>>]
    ELSE [list |-> TRUE, elems |-> [idx \in 1 .. body.len |-> ServerElement(off, idx - 1)]]

HandleResponseUnchecked(off, r, raising) ==
    [raise |-> FALSE,
     extend |-> IF r.exception \/ ~Decode(off, r.body).list
                THEN [idx \in 1 .. ChunkLen(off) |-> Placeholder]
                ELSE Decode(off, r.body).elems]

\* lines 103-120 for one response: the exception is raised, or `extend` is what
\* results is extended by
HandleResponse(off, r, raising) ==
    LET placeholders == [idx \in 1 .. ChunkLen(off) |-> Placeholder]
        failure == [raise |-> raising, extend |-> placeholders]
        data == Decode(off, r.body)
    IN IF r.exception THEN failure
       ELSE IF raising /\ ~r.ok THEN failure
       ELSE IF data.list THEN [raise |-> FALSE, extend |-> data.elems]
       ELSE failure

RequestOtherKey(off, inputs) ==
    [offset |-> off, inputs |-> inputs, key |-> NextInCycle(key), nth |-> TotalIssued]

\* requests.get of lines 68 and 104: what is sent (for a chunk the offset of the
\* chunk in calls and the keys of its inputs), under which key, after how many
\* issuances of keys
Request(off, inputs) ==
    [offset |-> off, inputs |-> inputs, key |-> key, nth |-> TotalIssued]

\* lines 87-90: batch_call is called
StartBatch ==
    /\ op = "none"
    /\ \E n \in 0 .. MaxCalls, r \in BOOLEAN :
          /\ TotalIssued + NumChunks(n) <= MaxIssues
          /\ calls' = n
          /\ raise_on_error' = r
          /\ results' = <<>>
          /\ resp' = NoResponse
          /\ responses' = <<>>
          /\ sent' = <<>>
          /\ value' = NoValue
          /\ i' = 0
          /\ IF n = 0
             THEN /\ outcome' = "returned"
                  /\ UNCHANGED <<op, pc, tried, key, slept, nesting>>
             ELSE /\ outcome' = "running"
                  /\ op' = "batch"
                  /\ pc' = "loop"
                  /\ UNCHANGED <<tried, key, slept, nesting>>
    /\ UNCHANGED <<api_keys, key_usage, key_cycle, now, issued>>
    /\ UNCHANGED <<storeVars, smoothVars, crawlVars>>

\* lines 92-94: the next chunk and its key, or line 122 after the last chunk
BatchLoop ==
    /\ op = "batch"
    /\ pc = "loop"
    /\ IF i < calls
       THEN /\ EnterGetValidKey
            /\ UNCHANGED <<op, outcome>>
       ELSE /\ outcome' = "returned"
            /\ op' = "none"
            /\ pc' = "idle"
            /\ UNCHANGED <<tried, key, slept, nesting>>
    /\ UNCHANGED <<api_keys, key_usage, key_cycle, now, issued>>
    /\ UNCHANGED <<calls, raise_on_error, i, results, resp, responses, value, sent>>
    /\ UNCHANGED <<storeVars, smoothVars, crawlVars>>

\* lines 95-120: the physical request of the chunk and the handling of its response
BatchRequest ==
    /\ op = "batch"
    /\ pc = "return"
    /\ \E r \in Responses(ChunkLen(i)) :
          LET got == HandleResponse(i, r, raise_on_error)
          IN /\ resp' = r
             /\ responses' = Append(responses, r)
             /\ sent' = Append(sent, Request(i, 0 .. ChunkLen(i) - 1))
             /\ IF got.raise
                THEN /\ outcome' = "raised"
                     /\ op' = "none"
                     /\ pc' = "idle"
                     /\ UNCHANGED <<i, results>>
                ELSE /\ results' = results \o got.extend
                     /\ i' = i + BATCH_SIZE
                     /\ pc' = "loop"
                     /\ UNCHANGED <<op, outcome>>
    /\ UNCHANGED <<api_keys, key_usage, key_cycle, now, issued, tried, key, slept, nesting>>
    /\ UNCHANGED <<calls, raise_on_error, value>>
    /\ UNCHANGED <<storeVars, smoothVars, crawlVars>>

----------------------------------------------------------------------------
(* TRPCClient.call *)

\* the decoded JSON value of a response body
JsonBody == [kind |-> "body"]

\* what requests.get can bring for a call: an exception (a timeout, a connection
\* error), or a response with a status and a body: an empty text, a JSON text, or a
\* text that is no JSON
CallResponses ==
    {[exception |-> TRUE, ok |-> FALSE, body |-> [type |-> "empty", len |-> 0]]} \cup
    [exception : {FALSE}, ok : BOOLEAN,
     body : {[type |-> t, len |-> 0] : t \in {"empty", "json", "notjson"}}]

\* line 71: resp.json() if resp.text else {}; the error resp.json() raises for a text
\* that is no JSON is a requests.RequestException from requests 2.27 on (`caught`)
\* and a plain ValueError before
DecodeCall(body, caught) ==
    IF body.type = "empty" THEN [raise |-> "no", value |-> Placeholder]
    ELSE IF body.type = "json" THEN [raise |-> "no", value |-> JsonBody]
    ELSE [raise |-> IF caught THEN "RequestException" ELSE "ValueError", value |-> NoValue]

\* lines 67-76 for one response: what call raises, or the value it returns
HandleCall(r, raising, caught) ==
    LET failure == [raise |-> raising, value |-> Placeholder]
        data == DecodeCall(r.body, caught)
    IN IF r.exception THEN failure
       ELSE IF raising /\ ~r.ok THEN failure
       ELSE IF data.raise = "no" THEN [raise |-> FALSE, value |-> data.value]
       ELSE IF data.raise = "RequestException" THEN failure
       ELSE [raise |-> TRUE, value |-> Placeholder]

\* lines 56-63: call is called
StartCall ==
    /\ op = "none"
    /\ TotalIssued < MaxIssues
    /\ raise_on_error' \in BOOLEAN
    /\ resp' = NoResponse
    /\ value' = NoValue
    /\ sent' = <<>>
    /\ outcome' = "running"
    /\ op' = "call"
    /\ EnterGetValidKey
    /\ UNCHANGED <<api_keys, key_usage, key_cycle, now, issued>>
    /\ calls' = 0
    /\ i' = 0
    /\ results' = <<>>
    /\ responses' = <<>>
    /\ UNCHANGED <<storeVars, smoothVars, crawlVars>>

\* lines 67-76: the request and the handling of its response
CallRequest ==
    /\ op = "call"
    /\ pc = "return"
    /\ \E r \in CallResponses, caught \in BOOLEAN :
          LET got == HandleCall(r, raise_on_error, caught)
          IN /\ resp' = r
             /\ sent' = Append(sent, Request(0, {}))
             /\ outcome' = IF got.raise THEN "raised" ELSE "returned"
             /\ value' = IF got.raise THEN NoValue ELSE got.value
    /\ op' = "none"
    /\ pc' = "idle"
    /\ UNCHANGED <<api_keys, key_usage, key_cycle, now, issued, tried, key, slept, nesting>>
    /\ UNCHANGED <<calls, raise_on_error, i, results, responses>>
    /\ UNCHANGED <<storeVars, smoothVars, crawlVars>>

----------------------------------------------------------------------------
(* DataProcessor._append_metrics *)

Entities == {"iron", "lead"}

\* config.PROFITABILITY_METRICS
MetricKeys == <<"min_pp", "avg_pp", "max_pp">>

\* what a snapshot can hold for one entity: every metric, or max_pp missing
SnapshotItems ==
    {[min_pp |-> 7, avg_pp |-> 8, max_pp |-> 9], [min_pp |-> 7, avg_pp |-> 8]}

\* the snapshots: any subset of the entities
Snapshots == UNION {[S -> SnapshotItems] : S \in SUBSET Entities}

\* s[-n:]
LastN(s, n) == IF Len(s) <= n THEN s ELSE SubSeq(s, Len(s) - n + 1, Len(s))

\* [0] * n
ZerosOneMore(n) == [idx \in 1 .. n + 1 |-> 0]

Zeros(n) == [idx \in 1 .. n |-> 0]

\* metrics.get(key, 0)
GetOrZero(metrics, k) == IF k \in DOMAIN metrics THEN metrics[k] ELSE 0

\* lines 64-71 for one entity: every metric of metric_keys is padded when new and
\* gets the value of the snapshot
UpdateItem(item_hist, metrics, current_len) ==
    LET keys == {MetricKeys[n] : n \in DOMAIN MetricKeys}
    IN [k \in DOMAIN item_hist \cup keys |->
          IF k \in keys
          THEN Append(IF k \in DOMAIN item_hist THEN item_hist[k] ELSE Zeros(current_len - 1),
                      GetOrZero(metrics, k))
          ELSE item_hist[k]]

\* lines 52-71: the entities of the snapshot are created and updated, the others
\* are left as they are
UpdateItems(its, data, current_len) ==
    [e \in DOMAIN its \cup DOMAIN data |->
        IF e \in DOMAIN data
        THEN UpdateItem(IF e \in DOMAIN its THEN its[e] ELSE <<>>, data[e], current_len)
        ELSE its[e]]

\* lines 76-78
TrimItems(its) == [e \in DOMAIN its |-> [k \in DOMAIN its[e] |-> LastN(its[e][k], MAX_HISTORY_POINTS)]]

\* _append_metrics(history, current_data, metric_keys), lines 47-80; the timestamp of
\* the n-th call is n
LastLabel == IF Len(labels) = 0 THEN 0 ELSE labels[Len(labels)]

AppendMetrics ==
    /\ LastLabel < MaxAppends
    /\ \E data \in Snapshots :
          LET timestamp == LastLabel + 1
              appended == Append(labels, timestamp)
              updated == UpdateItems(items, data, Len(appended))
          IN /\ current_data' = data
             /\ UNCHANGED <<glob, todo, total_fixes, hpc, original>>
             /\ IF Len(appended) > MAX_HISTORY_POINTS
                THEN /\ labels' = LastN(appended, MAX_HISTORY_POINTS)
                     /\ items' = TrimItems(updated)
                ELSE /\ labels' = appended
                     /\ items' = updated
    /\ UNCHANGED <<poolVars, batchVars, smoothVars, crawlVars>>

----------------------------------------------------------------------------
(* DataProcessor._get_global_thresholds and _smooth_series                  *)
(*                                                                         *)
(* A sample is an integer number of 10^-5.  The floats of the source are   *)
(* modelled by exact rationals: a threshold is a numerator over ThrDen, an *)
(* average or an interpolated value a numerator over its denominator, and  *)
(* every comparison is made by cross-multiplication.  Where x lies exactly *)
(* between two multiples of 10^-4, round(x, 4) goes to the side on which   *)
(* the float nearest to x lies: the model takes either side, so that a     *)
(* pass has a set of possible results.                                     *)

Unit == 10                     \* 10^-4, the grid of round(x, 4)
Epsilon == 100                 \* 0.001
THRESHOLD_MULTIPLIER == 13     \* config.THRESHOLD_MULTIPLIER, in tenths
GLOBAL_COEF_MIN == 45          \* config.GLOBAL_COEF_MIN, in hundredths
GLOBAL_COEF_THRESH == 135      \* config.GLOBAL_COEF_THRESH, in hundredths
ThrDen == 2 * 100              \* thresholds are numerators over ThrDen

\* line 128: the pair 0.05, 0.15
FallbackThresholds == [min |-> 5000 * ThrDen, thresh |-> 15000 * ThrDen]

\* lines 130-133 for a median given as twice its value (the median of an even
\* number of samples is the mean of the middle two)
ThresholdsOfMedian(median2) ==
    [min |-> median2 * GLOBAL_COEF_MIN, thresh |-> median2 * GLOBAL_COEF_THRESH]

\* round(num / den, 4): the nearest multiple of Unit, or both in case of a tie
Round4(num, den) ==
    LET d == den * Unit
        q == num \div d
        r == num - q * d
    IN IF 2 * r < d THEN {q * Unit}
       ELSE IF 2 * r > d THEN {(q + 1) * Unit}
       ELSE {q * Unit, (q + 1) * Unit}

\* line 152 and line 155: x < min_abs_val, for x = num / den
BelowMinOrEqual(num, den, min_abs) == num * ThrDen <= min_abs * den

BelowMin(num, den, min_abs) == num * ThrDen < min_abs * den

\* lines 153-157: the value that replaces a dip between prev_val and next_val
DipFix(prev_val, next_val, min_abs) ==
    IF BelowMin(prev_val + next_val, 2, min_abs)
    THEN Round4(min_abs * 11, ThrDen * 10)
    ELSE Round4(prev_val + next_val, 2)

\* line 177 for sample k (0-based) of a window of `size` samples between prev_val
\* and end_neighbor_val: expected_val as a numerator over size + 1
ExpectedNum(prev_val, end_neighbor_val, size, k) ==
    prev_val * (size + 1) + (end_neighbor_val - prev_val) * (k + 1)

\* lines 180-183 and 202-204: val > expected * THRESHOLD_MULTIPLIER and
\* val > min_val_thresh, for expected = num / den
IsOutlier(val, num, den, thresh) ==
    /\ val * den * 10 > num * THRESHOLD_MULTIPLIER
    /\ val * ThrDen > thresh

\* lines 169-185: the window of `size` samples at position p (1-based) of s is a
\* group outlier
IsGroupOutlier(s, p, size, thresh) ==
    /\ p + size <= Len(s)
    /\ \A k \in 0 .. size - 1 :
          IsOutlier(s[p + k], ExpectedNum(s[p - 1], s[p + size], size, k), size + 1, thresh)

\* the sequences that take one element of each set of a sequence of sets
RECURSIVE Products(_)
Products(sets) ==
    IF sets = <<>> THEN {<<>>}
    ELSE {<<x>> \o rest : x \in Head(sets), rest \in Products(Tail(sets))}

\* line 189: round(expected_vals[k], 4) for k = 0 .. size - 1
RoundedExpected(prev_val, end_neighbor_val, size) ==
    Products([n \in 1 .. size |->
                 Round4(ExpectedNum(prev_val, end_neighbor_val, size, n - 1), size + 1)])

ReplaceGroupShifted(s, p, size) ==
    {[n \in 1 .. Len(s) |-> IF n > p /\ n <= p + size THEN c[n - p] ELSE s[n]] :
        c \in RoundedExpected(s[p - 1], s[p + size], size)}

\* lines 188-189
ReplaceGroup(s, p, size) ==
    {[n \in 1 .. Len(s) |-> IF n >= p /\ n < p + size THEN c[n - p + 1] ELSE s[n]] :
        c \in RoundedExpected(s[p - 1], s[p + size], size)}

GroupSizeSmallestFirst(s, p, thresh) ==
    IF IsGroupOutlier(s, p, 2, thresh) THEN 2
    ELSE IF IsGroupOutlier(s, p, 3, thresh) THEN 3
    ELSE IF IsGroupOutlier(s, p, 4, thresh) THEN 4
    ELSE IF IsGroupOutlier(s, p, 5, thresh) THEN 5
    ELSE 0

\* line 168: the first size of 5, 4, 3, 2 whose window is a group outlier, or 0
GroupSize(s, p, thresh) ==
    IF IsGroupOutlier(s, p, 5, thresh) THEN 5
    ELSE IF IsGroupOutlier(s, p, 4, thresh) THEN 4
    ELSE IF IsGroupOutlier(s, p, 3, thresh) THEN 3
    ELSE IF IsGroupOutlier(s, p, 2, thresh) THEN 2
    ELSE 0

\* lines 199-204
IsSpike(s, p, thresh) ==
    /\ s[p + 1] > Epsilon
    /\ IsOutlier(s[p], s[p - 1] + s[p + 1], 2, thresh)

\* lines 201 and 207: the value that replaces a single spike
SpikeFixUnhalved(prev_val, next_val) == Round4(prev_val + next_val, 1)

SpikeFix(prev_val, next_val) == Round4(prev_val + next_val, 2)

\* lines 147-210: the while loop from position p (1-based, i = p - 1) with `count`
\* fixes made so far; the results it can have
RECURSIVE Scan(_, _, _, _, _)
Scan(s, p, count, min_abs, thresh) ==
    IF ~(p < Len(s)) THEN {[series |-> s, count |-> count]}
    ELSE IF BelowMin(s[p], 1, min_abs)
    THEN UNION {Scan([s EXCEPT ![p] = v], p + 1, count + 1, min_abs, thresh) :
                   v \in DipFix(s[p - 1], s[p + 1], min_abs)}
    ELSE IF s[p - 1] <= Epsilon
    THEN Scan(s, p + 1, count, min_abs, thresh)
    ELSE LET size == GroupSize(s, p, thresh)
         IN IF size > 0
            THEN UNION {Scan(r, p + size, count + size, min_abs, thresh) :
                           r \in ReplaceGroup(s, p, size)}
            ELSE IF IsSpike(s, p, thresh)
            THEN UNION {Scan([s EXCEPT ![p] = v], p + 1, count + 1, min_abs, thresh) :
                           v \in SpikeFix(s[p - 1], s[p + 1])}
            ELSE Scan(s, p + 1, count, min_abs, thresh)

\* lines 142-210: the results one call's pass over `s` can have
Pass(s, min_abs, thresh) == Scan(s, 2, 0, min_abs, thresh)

\* line 213: the pass made changes, and the result is cleaned once more
RecurseOnSeveral(count) == count > 1

RecurseNever(count) == FALSE

Recurse(count) == count > 0

\* the samples the series are made of: -0.0001, 0, 0.05004, 5 and 10
Samples == {-10, 0, 5004, 500000, 1000000}

RECURSIVE SeqsUpTo(_, _)
SeqsUpTo(S, n) ==
    IF n = 0 THEN {<<>>}
    ELSE LET shorter == SeqsUpTo(S, n - 1)
         IN shorter \cup {Append(t, x) : t \in {u \in shorter : Len(u) = n - 1}, x \in S}

\* further series: the example [1, 1, 1, 10, 1, 1], a rising series whose middle is
\* a group of 2, and plateaus of 4 and 5 samples
ExampleSeries ==
    { <<100000, 100000, 100000, 1000000, 100000, 100000>>,
      <<5004, 1000000, 1000000, 1000000, 1000000, 5004>>,
      <<5004, 500000, 900000, 1000000>>,
      <<500000, 1000000, 1000000, 1000000, 1000000, 500000>>,
      <<500000, 1000000, 1000000, 1000000, 1000000, 1000000, 500000>> }

InputSeries == SeqsUpTo(Samples, MaxLen) \cup ExampleSeries

\* the pairs _get_global_thresholds returns without samples, and for the medians
\* 0.1112 and 5
ThresholdPairs ==
    {FallbackThresholds, ThresholdsOfMedian(2 * 11120), ThresholdsOfMedian(2 * 500000)}

\* _smooth_series(series, min_abs_val, min_val_thresh) is called
SmoothCall ==
    /\ spc = "idle"
    /\ \E s \in InputSeries, t \in ThresholdPairs :
          /\ series' = s
          /\ cleaned' = s
          /\ min_abs_val' = t.min
          /\ min_val_thresh' = t.thresh
    /\ changes_count' = 0
    /\ depth' = 1
    /\ spc' = "pass"
    /\ run' = 1
    /\ UNCHANGED prior
    /\ UNCHANGED <<poolVars, batchVars, storeVars, crawlVars>>

\* lines 142-219 of the innermost call: its pass, then the nested call when the
\* pass made changes; the counts add up on the way back
SmoothPass ==
    /\ spc = "pass"
    /\ \E pass \in Pass(cleaned, min_abs_val, min_val_thresh) :
          /\ cleaned' = pass.series
          /\ changes_count' = changes_count + pass.count
          /\ IF Recurse(pass.count)
             THEN IF depth < RecursionLimit
                  THEN depth' = depth + 1 /\ spc' = "pass"
                  ELSE depth' = depth /\ spc' = "RecursionError"
             ELSE depth' = depth /\ spc' = "done"
    /\ UNCHANGED <<series, min_abs_val, min_val_thresh, run, prior>>
    /\ UNCHANGED <<poolVars, batchVars, storeVars, crawlVars>>

\* _smooth_series is called on the series it returned, with the same thresholds
SmoothAgain ==
    /\ spc = "done"
    /\ run = 1
    /\ series' = cleaned
    /\ changes_count' = 0
    /\ depth' = 1
    /\ spc' = "pass"
    /\ run' = 2
    /\ prior' = [series |-> cleaned, count |-> changes_count]
    /\ UNCHANGED <<cleaned, min_abs_val, min_val_thresh>>
    /\ UNCHANGED <<poolVars, batchVars, storeVars, crawlVars>>

----------------------------------------------------------------------------
(* DataProcessor.clean_history *)

\* the list ["min_pp", "avg_pp", "max_pp"] of lines 122 and 229
CleanedMetricList == <<"min_pp", "avg_pp", "max_pp">>

CleanedMetrics == {CleanedMetricList[n] : n \in DOMAIN CleanedMetricList}

\* the order in which history["items"] holds its entities
EntityOrder == <<"iron", "lead">>

\* the (entity, metric) pairs in the order of the loops of lines 228-229, for the
\* entities from number n of EntityOrder on
RECURSIVE LoopOrder(_, _)
LoopOrder(its, n) ==
    IF n > Len(EntityOrder) THEN <<>>
    ELSE (IF EntityOrder[n] \in DOMAIN its
          THEN [j \in DOMAIN CleanedMetricList |-> <<EntityOrder[n], CleanedMetricList[j]>>]
          ELSE <<>>) \o LoopOrder(its, n + 1)

\* the samples of series s that are greater than 0.001, line 124
ValidVals(s) == SelectSeq(s, LAMBDA x : x > Epsilon)

\* lines 121-125: all_values, the valid samples of the metrics of one entity and of
\* the entities of a store, in some order
RECURSIVE MetricValues(_, _)
MetricValues(item_data, metrics) ==
    IF metrics = {} THEN <<>>
    ELSE LET metric == CHOOSE m \in metrics : TRUE
         IN ValidVals(item_data[metric]) \o MetricValues(item_data, metrics \ {metric})

RECURSIVE AllValues(_, _)
AllValues(its, names) ==
    IF names = {} THEN <<>>
    ELSE LET item_name == CHOOSE e \in names : TRUE
         IN MetricValues(its[item_name], DOMAIN its[item_name] \cap CleanedMetrics)
               \o AllValues(its, names \ {item_name})

\* sorted(values)
RECURSIVE Sorted(_)
Sorted(values) ==
    IF values = <<>> THEN <<>>
    ELSE LET least == CHOOSE n \in DOMAIN values : \A m \in DOMAIN values : values[n] <= values[m]
             rest == [n \in 1 .. Len(values) - 1 |-> IF n < least THEN values[n] ELSE values[n + 1]]
         IN <<values[least]>> \o Sorted(rest)

Median2LowerMiddle(values) == 2 * Sorted(values)[(Len(values) + 1) \div 2]

\* statistics.median(values), doubled: the middle sample, or the mean of the middle two
Median2(values) ==
    LET sorted == Sorted(values)
        n == Len(values)
    IN IF n % 2 = 1 THEN 2 * sorted[(n + 1) \div 2]
       ELSE sorted[n \div 2] + sorted[n \div 2 + 1]

\* lines 114-133
GetGlobalThresholds(its) ==
    LET all_values == AllValues(its, DOMAIN its)
    IN IF all_values = <<>> THEN FallbackThresholds
       ELSE ThresholdsOfMedian(Median2(all_values))

\* lines 142-219: the results _smooth_series can have for s as call number `nested`
\* of a nest of calls; `error` when the nest reaches the interpreter's limit
RECURSIVE SmoothSeries(_, _, _, _)
SmoothSeries(s, min_abs, thresh, nested) ==
    UNION {IF Recurse(pass.count)
           THEN IF nested < RecursionLimit
                THEN {[series |-> r.series, count |-> pass.count + r.count, error |-> r.error] :
                         r \in SmoothSeries(pass.series, min_abs, thresh, nested + 1)}
                ELSE {[series |-> pass.series, count |-> pass.count, error |-> TRUE]}
           ELSE {[series |-> pass.series, count |-> pass.count, error |-> FALSE]} :
              pass \in Pass(s, min_abs, thresh)}

\* the series a store is made of: samples that are not above 0.001, a level series
\* at 5, one at 5 with a spike, and a level series at 1
StoredSeries ==
    { <<0, 0, 100, 0>>,
      <<500000, 500000, 500000, 500000>>,
      <<500000, 3000000, 500000, 500000>>,
      <<100000, 100000, 100000, 100000>> }

\* history["items"] of a history file: the entities it holds have the three
\* metrics, or lack max_pp
Stores ==
    UNION {[S -> [CleanedMetrics -> StoredSeries] \cup [CleanedMetrics \ {"max_pp"} -> StoredSeries]] :
              S \in SUBSET Entities}

ReplaceSeriesOfItem(its, item_name, metric, new_series) ==
    [its EXCEPT ![item_name] = [m \in DOMAIN its[item_name] |-> new_series]]

\* line 238
ReplaceSeries(its, item_name, metric, new_series) ==
    [its EXCEPT ![item_name][metric] = new_series]

\* lines 222-226: clean_history(history) is called
CleanCall ==
    /\ hpc = "idle"
    /\ \E its \in Stores :
          /\ items' = its
          /\ original' = its
          /\ labels' = <<1, 2, 3, 4>>
          /\ glob' = GetGlobalThresholds(its)
          /\ todo' = LoopOrder(its, 1)
    /\ total_fixes' = 0
    /\ hpc' = "loop"
    /\ UNCHANGED current_data
    /\ UNCHANGED <<poolVars, batchVars, smoothVars, crawlVars>>

\* lines 228-239: one iteration of the inner loop
CleanSeries ==
    /\ hpc = "loop"
    /\ todo # <<>>
    /\ LET item_name == Head(todo)[1]
           metric == Head(todo)[2]
          IN /\ todo' = Tail(todo)
             /\ IF metric \in DOMAIN items[item_name]
                THEN \E r \in SmoothSeries(items[item_name][metric], glob.min, glob.thresh, 1) :
                        IF r.error
                        THEN /\ hpc' = "RecursionError"
                             /\ UNCHANGED <<items, total_fixes>>
                        ELSE /\ hpc' = hpc
                             /\ IF r.count > 0
                                THEN /\ items' = ReplaceSeries(items, item_name, metric, r.series)
                                     /\ total_fixes' = total_fixes + r.count
                                ELSE UNCHANGED <<items, total_fixes>>
                ELSE UNCHANGED <<items, total_fixes, hpc>>
    /\ UNCHANGED <<labels, current_data, glob, original>>
    /\ UNCHANGED <<poolVars, batchVars, smoothVars, crawlVars>>

\* lines 241-244
CleanReturn ==
    /\ hpc = "loop"
    /\ todo = <<>>
    /\ hpc' = "done"
    /\ UNCHANGED <<labels, items, current_data, glob, todo, total_fixes, original>>
    /\ UNCHANGED <<poolVars, batchVars, smoothVars, crawlVars>>

----------------------------------------------------------------------------
(* CompanyAnalyzer.collect_company_stats: the crawl of lines 90-123 (users of   *)
(* countries); the crawl of lines 130-164 (companies of users) is the same loop *)
(*                                                                              *)
(* A cursor is the number of the page it asks for; None is 0.  The server has    *)
(* MaxPages pages for every parent, and the ids of different pages and parents   *)
(* overlap.  It answers the requests in `failing` with an element that carries   *)
(* an error field.                                                               *)

Parents == 1 .. MaxParents

Requests == Parents \X (0 .. MaxPages - 1)

\* the ids on the page the server has for a request
PageItems(req) == {req[1] + req[2], req[1] + req[2] + 1}

\* data.get("nextCursor"): 0 on the last page
NextCursor(req) == IF req[2] + 1 < MaxPages THEN req[2] + 1 ELSE 0

\* an element that answers none of the calls of its request: {}
EmptyPage == [error |-> FALSE, items |-> {}, nextCursor |-> 0]

\* what an element of results holds, lines 107-115
PageOf(res) ==
    IF res = Placeholder THEN EmptyPage
    ELSE IF res.index < ChunkLen(res.request)
    THEN LET req == chunk[res.request + res.index + 1]
         IN [error |-> req \in failing, items |-> PageItems(req), nextCursor |-> NextCursor(req)]
    ELSE EmptyPage

\* line 107: "error" in res
NeverError(page) == FALSE

CarriesError(page) == page.error

\* the ids of the pages of `rs` that carry no error
IdsOf(rs) == UNION {PageOf(rs[n]).items : n \in {m \in DOMAIN rs : ~PageOf(rs[m]).error}}

\* lines 79-90: the queue of the first round
CrawlStart ==
    /\ cpc = "idle"
    /\ op = "none"
    /\ failing' \in {S \in SUBSET Requests : Cardinality(S) <= 2}
    /\ queue' = [p \in Parents |-> <<p, 0>>]
    /\ all_user_ids' = {}
    /\ cpc' = "while"
    /\ UNCHANGED <<chunk, ci, processed, skipped, returned_ids>>
    /\ UNCHANGED <<poolVars, batchVars, storeVars, smoothVars>>

\* lines 92-103: the loop ends, or a round begins and batch_call is called
CrawlWhile ==
    /\ cpc = "while"
    /\ IF queue = <<>>
       THEN /\ cpc' = "done"
            /\ UNCHANGED <<queue, chunk, op, pc, batchVars>>
       ELSE /\ chunk' = queue
            /\ queue' = <<>>
            /\ cpc' = "call"
            /\ calls' = Len(queue)
            /\ raise_on_error' = TRUE
            /\ results' = <<>>
            /\ resp' = NoResponse
            /\ responses' = <<>>
            /\ sent' = <<>>
            /\ value' = value
            /\ i' = 0
            /\ outcome' = "running"
            /\ op' = "batch"
            /\ pc' = "loop"
    /\ UNCHANGED <<api_keys, key_usage, key_cycle, now, issued, tried, key, slept, nesting>>
    /\ UNCHANGED <<failing, all_user_ids, ci, processed, skipped, returned_ids>>
    /\ UNCHANGED <<storeVars, smoothVars>>

\* line 103: batch_call returns, or its exception leaves collect_company_stats
CrawlReturn ==
    /\ cpc = "call"
    /\ op = "none"
    /\ IF outcome = "raised"
       THEN /\ cpc' = "raised"
            /\ UNCHANGED <<ci, returned_ids>>
       ELSE /\ cpc' = "results"
            /\ ci' = 0
            /\ returned_ids' = returned_ids \cup IdsOf(results)
    /\ UNCHANGED <<failing, queue, chunk, all_user_ids, processed, skipped>>
    /\ UNCHANGED <<poolVars, batchVars, storeVars, smoothVars>>

\* lines 117-120
AddIds(ids, found) == ids \cup found

\* lines 105-123: one iteration of the for loop, or its end
CrawlResult ==
    /\ cpc = "results"
    /\ IF ci >= Len(results)
       THEN /\ cpc' = "while"
            /\ UNCHANGED <<queue, all_user_ids, ci, processed, skipped>>
       ELSE IF ci >= Len(chunk)
       THEN /\ cpc' = "raised"
            /\ UNCHANGED <<queue, all_user_ids, ci, processed, skipped>>
       ELSE LET cid == chunk[ci + 1][1]
                page == PageOf(results[ci + 1])
            IN /\ ci' = ci + 1
               /\ processed' = processed \cup {chunk[ci + 1]}
               /\ cpc' = cpc
               /\ IF CarriesError(page)
                  THEN /\ skipped' = skipped \cup {chunk[ci + 1]}
                       /\ UNCHANGED <<queue, all_user_ids>>
                  ELSE /\ skipped' = skipped
                       /\ all_user_ids' = AddIds(all_user_ids, page.items)
                       /\ queue' = IF page.nextCursor # 0
                                   THEN Append(queue, <<cid, page.nextCursor>>)
                                   ELSE queue
    /\ UNCHANGED <<failing, chunk, returned_ids>>
    /\ UNCHANGED <<poolVars, batchVars, storeVars, smoothVars>>

CrawlInit ==
    /\ failing = {}
    /\ queue = <<>>
    /\ chunk = <<>>
    /\ all_user_ids = {}
    /\ ci = 0
    /\ cpc = "idle"
    /\ processed = {}
    /\ skipped = {}
    /\ returned_ids = {}

----------------------------------------------------------------------------

BatchInit ==
    /\ calls = 0
    /\ raise_on_error = TRUE
    /\ i = 0
    /\ results = <<>>
    /\ resp = NoResponse
    /\ responses = <<>>
    /\ sent = <<>>
    /\ outcome = "none"
    /\ value = NoValue

\* the empty skeleton {"labels": [], "items": {}}
StoreInit ==
    /\ labels = <<>>
    /\ items = <<>>
    /\ current_data = <<>>
    /\ glob = [min |-> 0, thresh |-> 0]
    /\ todo = <<>>
    /\ total_fixes = 0
    /\ hpc = "idle"
    /\ original = <<>>

SmoothInit ==
    /\ series = <<>>
    /\ min_abs_val = 0
    /\ min_val_thresh = 0
    /\ cleaned = <<>>
    /\ changes_count = 0
    /\ depth = 0
    /\ spc = "idle"
    /\ run = 0
    /\ prior = [series |-> <<>>, count |-> 0]

Init == PoolInit /\ BatchInit /\ StoreInit /\ SmoothInit /\ CrawlInit

\* the client under direct calls of _get_valid_key
Next ==
    \/ NewClient
    \/ Tick
    \/ StartAcquire
    \/ ScanKey
    \/ AppendExpired
    \/ Exhausted
    \/ ReturnAcquire

Spec == Init /\ [][Next]_vars

\* the client under calls of batch_call
NextBatch ==
    \/ NewClient
    \/ Tick
    \/ StartBatch
    \/ BatchLoop
    \/ ScanKey
    \/ AppendExpired
    \/ Exhausted
    \/ BatchRequest

SpecBatch == Init /\ [][NextBatch]_vars

\* the client under calls of call and of batch_call
NextClient ==
    \/ NewClient
    \/ Tick
    \/ StartCall
    \/ StartBatch
    \/ BatchLoop
    \/ ScanKey
    \/ AppendExpired
    \/ Exhausted
    \/ CallRequest
    \/ BatchRequest

SpecClient == Init /\ [][NextClient]_vars

\* the client under calls of call
NextCall ==
    \/ NewClient
    \/ Tick
    \/ StartCall
    \/ ScanKey
    \/ AppendExpired
    \/ Exhausted
    \/ CallRequest

SpecCall == Init /\ [][NextCall]_vars

\* the history store under calls of _append_metrics
NextStore == AppendMetrics

SpecStore == Init /\ [][NextStore]_vars

\* the history store under calls of clean_history
NextClean ==
    \/ CleanCall
    \/ CleanSeries
    \/ CleanReturn

SpecClean == Init /\ [][NextClean]_vars

\* the spike cleaner under calls of _smooth_series
NextSmooth ==
    \/ SmoothCall
    \/ SmoothPass
    \/ SmoothAgain

SpecSmooth == Init /\ [][NextSmooth]_vars

\* collect_company_stats and the batch_call it makes; the sleeps of _get_valid_key
\* are the only passing of time
NextCrawl ==
    \/ NewClient
    \/ CrawlStart
    \/ CrawlWhile
    \/ BatchLoop
    \/ ScanKey
    \/ AppendExpired
    \/ Exhausted
    \/ BatchRequest
    \/ CrawlReturn
    \/ CrawlResult

SpecCrawl == Init /\ [][NextCrawl]_vars

----------------------------------------------------------------------------
(* The rate limit *)

FairSpec ==
    /\ Spec
    /\ WF_vars(Tick)
    /\ WF_vars(ScanKey)
    /\ WF_vars(AppendExpired)
    /\ WF_vars(Exhausted)
    /\ WF_vars(ReturnAcquire)

\* the issuances for key k in the window of W that ends at t, both ends included
WindowCount(k, t) ==
    Cardinality({n \in DOMAIN issued[k] : issued[k][n] >= t - W /\ issued[k][n] <= t})

\* the instants at which a window for key k can hold the most: a window that ends
\* between two issuances holds no more than the one that ends at the earlier of them
WindowEnds(k) == {issued[k][n] : n \in DOMAIN issued[k]} \cup {now}

\* C1: for every key and every instant t, at most Quota keys were issued for it in
\* the window of W ending at t
C1_WindowWithinQuota ==
    \A k \in Keys : \A t \in WindowEnds(k) : WindowCount(k, t) <= Quota

\* a key was issued more often than Quota, and Quota of its issuances are in the
\* present window
C1_Witness ==
    \E k \in Keys : Len(issued[k]) > Quota /\ WindowCount(k, now) = Quota

\* C4: _get_valid_key raises no error (line 48 never reads an empty deque, the
\* nesting never reaches the limit) and, once entered, eventually returns one of the
\* configured keys
C4_AlwaysReturnsKey ==
    /\ [](pc = "exhausted" => \A k \in Keys : Len(key_usage[k]) > 0)
    /\ [](pc # "RecursionError")
    /\ (pc \in {"scan", "append", "exhausted"}) ~> (pc = "return" /\ key \in Keys)

\* the time left until the oldest entry of key k is W old
Remaining(k) == Max(0, W - (now - Head(key_usage[k])))

\* C18: when a rotation found no key eligible, _get_valid_key sleeps for the least
\* remaining time of a key plus the safety margin before it scans again
C18_SleepsBeforeRetry ==
    [][(pc = "exhausted" /\ pc' = "scan") =>
          \E k \in Keys :
              /\ \A other \in Keys : Remaining(k) <= Remaining(other)
              /\ now' = now + Remaining(k) + SleepMargin
              /\ slept' = Append(slept, Remaining(k) + SleepMargin)]_vars

\* a step that appends to a usage record
Issuance == api_keys > 0 /\ key_usage' # key_usage

\* a step that enters _get_valid_key anew
Enters == pc' = "scan" /\ key' = 0 /\ ~(pc = "scan" /\ key = 0)

NonDecreasing(history) ==
    \A n \in 1 .. Len(history) - 1 : history[n] <= history[n + 1]

\* C20: a usage record holds at most Quota timestamps in non-decreasing order; an
\* issuance appends the present time as the newest entry of one record and, when the
\* record is full, drops its oldest entry and no other
C20_RecordBoundedAndOrdered ==
    /\ [](\A k \in Keys : Len(key_usage[k]) <= Quota /\ NonDecreasing(key_usage[k]))
    /\ [][Issuance =>
            \E k \in Keys :
                /\ \A other \in Keys \ {k} : key_usage'[other] = key_usage[other]
                /\ key_usage'[k] =
                      IF Len(key_usage[k]) < Quota
                      THEN Append(key_usage[k], now)
                      ELSE Append(SubSeq(key_usage[k], 2, Quota), now)]_vars

\* a full record took an issuance: its oldest entry is gone, the rest moved up
C20_Witness ==
    \E k \in Keys :
        /\ Len(issued[k]) > Quota
        /\ Len(key_usage[k]) = Quota
        /\ key_usage[k][Quota] = now
        /\ key_usage[k][1] = issued[k][Len(issued[k]) - Quota + 1]

\* key k is eligible at the present time: its record has room, or its oldest entry
\* is older than W
Eligible(k) ==
    IF Len(key_usage[k]) < Quota THEN TRUE ELSE now - Head(key_usage[k]) > W

\* C21: _get_valid_key returns only by issuing a key; the key it issues is eligible
\* at the moment of the issuance, and the issuance changes the record of that key
\* and of no other
C21_IssuedKeyWasEligible ==
    /\ [][(pc # "return" /\ pc' = "return") => Issuance]_vars
    /\ [][Issuance =>
            /\ pc # "return"
            /\ pc' = "return"
            /\ key' \in Keys
            /\ Eligible(key')
            /\ key_usage'[key'] # key_usage[key']
            /\ \A other \in Keys \ {key'} : key_usage'[other] = key_usage[other]]_vars

\* with several keys configured, a key was issued through the expired branch while
\* the record of another key holds entries
C21_Witness ==
    /\ pc = "return"
    /\ api_keys > 1
    /\ Len(issued[key]) > Quota
    /\ \E other \in Keys \ {key} : Len(key_usage[other]) > 0

\* a step of the for loop of _get_valid_key
Examines == pc = "scan" /\ <<pc, key, tried>>' # <<pc, key, tried>>

\* the number of issuances of key k when the keys were issued in turn from the first
InTurn(k) == (TotalIssued \div api_keys) + (IF k <= TotalIssued % api_keys THEN 1 ELSE 0)

\* C22: the cursor moves only in the for loop, by one key in cyclic order; the loop
\* examines the key at the cursor and issues it exactly when it is eligible, so that
\* the cursor stands behind the key returned and the next call goes on from there;
\* as long as every key was eligible at every call the keys are issued in turn
C22_RotationPersists ==
    /\ [][key_cycle' # key_cycle => Examines]_vars
    /\ [][Examines =>
            /\ key' = key_cycle
            /\ key_cycle' = (key_cycle % api_keys) + 1
            /\ Eligible(key_cycle) <=> pc' \in {"return", "append"}]_vars
    /\ [](pc \in {"return", "append"} => key_cycle = (key % api_keys) + 1)
    /\ []((\A k \in Keys : Len(issued[k]) <= Quota) =>
              \A k \in Keys : Len(issued[k]) = InTurn(k))

\* every key of several was issued Quota times, in turn
C22_Witness ==
    /\ pc = "return"
    /\ api_keys = MaxKeys
    /\ \A k \in Keys : Len(issued[k]) = Quota

\* C23: the length of a record never decreases; a record at capacity stays at
\* capacity, and takes an issuance only when its oldest entry is older than W
C23_FullRecordStaysFull ==
    /\ [][\A k \in Keys : Len(key_usage'[k]) >= Len(key_usage[k])]_vars
    /\ [][\A k \in Keys : Len(key_usage[k]) = Quota =>
            /\ Len(key_usage'[k]) = Quota
            /\ ~HasQuota(key_usage'[k])
            /\ key_usage'[k] # key_usage[k] => now - Head(key_usage[k]) > W]_vars

\* a record at capacity took two more issuances
C23_Witness ==
    \E k \in Keys :
        /\ Len(issued[k]) >= Quota + 2
        /\ Len(key_usage[k]) = Quota
        /\ pc = "return"
        /\ key = k

----------------------------------------------------------------------------
(* batch_call *)

\* the offset of the chunk that holds call j, and the place of call j in it
ChunkOf(j) == ((j - 1) \div BATCH_SIZE) * BATCH_SIZE

PlaceOf(j) == (j - 1) % BATCH_SIZE

\* C2: when batch_call returns, results has one element per call, and element j is
\* what the server sent for calls[j] or the placeholder of its chunk
C2_ResultsMatchCalls ==
    outcome = "returned" =>
        /\ Len(results) = calls
        /\ \A j \in 1 .. Len(results) :
              results[j] \in {Placeholder, ServerElement(ChunkOf(j), PlaceOf(j))}

\* the response decodes to something else than a list of one element per call
Malformed(r, n) ==
    /\ ~r.exception
    /\ \/ ~Decode(0, r.body).list
       \/ Len(Decode(0, r.body).elems) # n

\* C3: a response that does not decode to a list of the chunk's length is handled
\* as a transport failure: raised in raising mode, one placeholder per call otherwise
C3_MalformedIsFailure ==
    [][(op = "batch" /\ pc = "return" /\ pc' # "return" /\ Malformed(resp', ChunkLen(i))) =>
          IF raise_on_error
          THEN outcome' = "raised"
          ELSE results' = results \o [idx \in 1 .. ChunkLen(i) |-> Placeholder]]_vars

\* the response of the chunk that holds call j
ResponseOf(j) == responses[(ChunkOf(j) \div BATCH_SIZE) + 1]

\* C16: when batch_call returns in non-raising mode after a transport failure of
\* some chunk, the slots of every failed chunk hold the placeholder and the other
\* slots hold what the server sent for their calls (a chunk whose response has not
\* the chunk's shape counts as failed)
C16_FailedChunkOnlyIsEmpty ==
    /\ ~raise_on_error => outcome # "raised"
    /\ (/\ outcome = "returned"
        /\ ~raise_on_error
        /\ \E n \in DOMAIN responses : responses[n].exception \/ ~responses[n].ok) =>
            /\ Len(results) = calls
            /\ \A j \in 1 .. Len(results) :
                  results[j] =
                      IF \/ ResponseOf(j).exception
                         \/ ~ResponseOf(j).ok
                         \/ Malformed(ResponseOf(j), ChunkLen(ChunkOf(j)))
                      THEN Placeholder
                      ELSE ServerElement(ChunkOf(j), PlaceOf(j))

\* the response is a success: a 2xx status and a list of one element per call
Successful(r, n) ==
    /\ ~r.exception
    /\ r.ok
    /\ ~Malformed(r, n)

\* C17: an element of a successful response, whether or not it carries an error
\* field, makes batch_call neither raise nor substitute a placeholder, and is in the
\* slot of the call it answers when batch_call returns
C17_ItemErrorsPreserved ==
    /\ [][(op = "batch" /\ pc = "return" /\ pc' # "return"
              /\ Successful(resp', ChunkLen(i))) =>
            /\ outcome' # "raised"
            /\ results' = results \o [idx \in 1 .. ChunkLen(i) |-> ServerElement(i, idx - 1)]]_vars
    /\ [](outcome = "returned" =>
            \A j \in 1 .. calls :
                Successful(ResponseOf(j), ChunkLen(ChunkOf(j))) =>
                    /\ j <= Len(results)
                    /\ results[j] = ServerElement(ChunkOf(j), PlaceOf(j)))

\* the request failed at the transport level: no response, or a status that is
\* not 2xx
TransportFailure(r) == r.exception \/ ~r.ok

\* C15: call in non-raising mode returns {} for every transport failure and raises
\* nothing
C15_CallDegradesToEmpty ==
    (op = "none" /\ outcome \in {"returned", "raised"} /\ ~raise_on_error
        /\ resp # NoResponse /\ TransportFailure(resp)) =>
        /\ outcome = "returned"
        /\ value = Placeholder

\* a step that makes a physical request
Sends == Len(sent') > Len(sent)

\* the least c with c * b >= a
Ceil(a, b) == CHOOSE c \in 0 .. a : c * b >= a /\ (c = 0 \/ (c - 1) * b < a)

\* the width of chunk n (from 1) of a list of `len` calls cut every BATCH_SIZE
WidthOf(n, len) ==
    IF len - (n - 1) * BATCH_SIZE < BATCH_SIZE THEN len - (n - 1) * BATCH_SIZE ELSE BATCH_SIZE

\* C24: the requests of batch_call are for the consecutive chunks of calls, each of
\* BATCH_SIZE calls but the last, with inputs keyed from 0 inside the chunk; each
\* follows one issuance of a key made for it; when batch_call returns there were
\* ceil(len(calls) / BATCH_SIZE) of them, and for no calls it returns at once
\* without a key or a request
C24_OneRequestPerChunk ==
    /\ [][Sends =>
            /\ pc = "return"
            /\ issued' = issued
            /\ sent' = Append(sent, [offset |-> Len(sent) * BATCH_SIZE,
                                     inputs |-> 0 .. WidthOf(Len(sent) + 1, calls) - 1,
                                     key |-> key,
                                     nth |-> TotalIssued])]_vars
    /\ [][(Issuance /\ op = "batch") =>
            /\ pc # "return"
            /\ pc' = "return"
            /\ Len(sent) * BATCH_SIZE < calls
            /\ sent # <<>> => TotalIssued = sent[Len(sent)].nth]_vars
    /\ [](\A n \in DOMAIN sent :
              /\ sent[n].inputs # {}
              /\ Cardinality(sent[n].inputs) <= BATCH_SIZE
              /\ n < Len(sent) => Cardinality(sent[n].inputs) = BATCH_SIZE)
    /\ [](outcome = "returned" =>
              /\ Len(sent) = Ceil(calls, BATCH_SIZE)
              /\ calls > 0 => sent[Len(sent)].offset + Cardinality(sent[Len(sent)].inputs) = calls)
    /\ [][(outcome # "returned" /\ outcome' = "returned" /\ calls' = 0) =>
            /\ sent' = <<>>
            /\ issued' = issued
            /\ results' = <<>>]_vars

\* batch_call returned after the requests of a full and of a shorter chunk
C24_Witness ==
    /\ outcome = "returned"
    /\ calls = BATCH_SIZE + 1
    /\ Len(sent) = 2
    /\ sent[2].inputs = {0}
    /\ sent[2].nth = sent[1].nth + 1

\* C25: call makes one request, after the one issuance of a key made for it, and
\* ends with it whatever the request brought; batch_call makes one request per
\* chunk, after the one issuance made for the chunk, and goes on to the next chunk
\* or raises when the request failed; a request leaves the usage records as they are
C25_OneAcquireOneRequest ==
    /\ [][Sends =>
            /\ op \in {"call", "batch"}
            /\ pc = "return"
            /\ sent'[Len(sent')].key = key
            /\ sent'[Len(sent')].nth = TotalIssued
            /\ key_usage[key][Len(key_usage[key])] = issued[key][Len(issued[key])]
            /\ UNCHANGED <<key_usage, issued>>
            /\ op = "call" => sent = <<>> /\ op' = "none"
            /\ op = "batch" => outcome' = "raised" \/ i' = i + BATCH_SIZE]_vars
    /\ [][(Issuance /\ op \in {"call", "batch"}) =>
            /\ pc # "return"
            /\ pc' = "return"
            /\ op = "call" => sent = <<>>
            /\ sent # <<>> => TotalIssued = sent[Len(sent)].nth /\ i > sent[Len(sent)].offset]_vars
    /\ [](\A n \in DOMAIN sent : \A m \in DOMAIN sent :
              n < m => sent[n].offset < sent[m].offset /\ sent[n].nth < sent[m].nth)
    /\ [][(op = "call" /\ op' = "none") => Len(sent') = 1]_vars

\* a request of call failed and call ended, and a request of batch_call failed and
\* batch_call went on to the next chunk
C25_Witness ==
    /\ op = "batch"
    /\ ~raise_on_error
    /\ Len(sent) = 2
    /\ TransportFailure(responses[1])
    /\ Len(issued[sent[1].key]) >= 1

\* C26: in raising mode a transport failure of a chunk makes batch_call raise: it
\* returns nothing, requests no later chunk, issues no further key, and leaves the
\* usage records as they are
C26_RaisingModePropagates ==
    /\ [][(Sends /\ op = "batch" /\ raise_on_error /\ TransportFailure(resp')) =>
            /\ outcome' = "raised"
            /\ op' = "none"
            /\ UNCHANGED <<key_usage, issued>>]_vars
    /\ [][outcome = "raised" =>
            /\ UNCHANGED <<key_usage, issued>>
            /\ sent' # sent => sent' = <<>> /\ outcome' # "raised"]_vars
    /\ []((outcome = "raised" /\ TransportFailure(resp)) =>
              /\ raise_on_error
              /\ Len(sent) = Len(responses)
              /\ responses[Len(responses)] = resp
              /\ \A n \in DOMAIN sent : Len(issued[sent[n].key]) > 0)

\* batch_call raised at the first of two chunks
C26_Witness ==
    /\ outcome = "raised"
    /\ TransportFailure(resp)
    /\ calls > BATCH_SIZE
    /\ Len(sent) = 1
    /\ TotalIssued = sent[1].nth

----------------------------------------------------------------------------
(* The history store *)

\* C5: every metric sequence of every entity in the store is as long as labels
C5_SeriesAligned ==
    \A e \in DOMAIN items : \A k \in DOMAIN items[e] : Len(items[e][k]) = Len(labels)

\* the metrics of metric_keys
MetricKeySet == {MetricKeys[n] : n \in DOMAIN MetricKeys}

\* C11: an entity of the snapshot that was not in the store gets every configured
\* metric, as a zero for each prior label followed by the snapshot's value (0 when
\* the snapshot lacks the metric): each sequence is as long as the new labels
C11_NewEntityBackfilled ==
    [][\A e \in DOMAIN current_data' \ DOMAIN items :
          /\ DOMAIN items'[e] = MetricKeySet
          /\ \A k \in MetricKeySet :
                /\ Len(items'[e][k]) = Len(labels')
                /\ items'[e][k][Len(labels')] =
                      (IF k \in DOMAIN current_data'[e] THEN current_data'[e][k] ELSE 0)
                /\ \A n \in 1 .. Len(labels') - 1 : items'[e][k][n] = 0]_vars

\* the last call created an entity when there were labels before, from a snapshot
\* that lacks max_pp for it
C11_Witness ==
    /\ Len(labels) >= 2
    /\ \E e \in DOMAIN current_data :
          /\ "max_pp" \notin DOMAIN current_data[e]
          /\ items[e]["min_pp"] = Zeros(Len(labels) - 1) \o <<current_data[e]["min_pp"]>>
          /\ items[e]["max_pp"] = Zeros(Len(labels))

\* C12: once more than MAX_HISTORY_POINTS labels were appended, labels holds the
\* MAX_HISTORY_POINTS most recent ones and every metric sequence of every entity has
\* that length; labels never is longer
C12_TrimmedToN ==
    /\ Len(labels) <= MAX_HISTORY_POINTS
    /\ LastLabel > MAX_HISTORY_POINTS =>
          /\ labels = [n \in 1 .. MAX_HISTORY_POINTS |-> LastLabel - MAX_HISTORY_POINTS + n]
          /\ \A e \in DOMAIN items : \A k \in DOMAIN items[e] :
                Len(items[e][k]) = MAX_HISTORY_POINTS

\* the (entity, metric) pairs of a store
SeriesOf(its) == {<<e, m>> : e \in DOMAIN its, m \in CleanedMetrics} \cap
                 UNION {{<<e, m>> : m \in DOMAIN its[e]} : e \in DOMAIN its}

\* the places of the store clean_history was called with whose sample is above 0.001
ValidPlaces ==
    UNION {{<<k[1], k[2], n>> : n \in {j \in DOMAIN original[k[1]][k[2]] :
                                           original[k[1]][k[2]][j] > Epsilon}} :
              k \in SeriesOf(original)}

SampleAt(place) == original[place[1]][place[2]][place[3]]

\* the k-th smallest of the valid samples
KthSample(k) ==
    CHOOSE v \in {SampleAt(place) : place \in ValidPlaces} :
        /\ Cardinality({place \in ValidPlaces : SampleAt(place) < v}) < k
        /\ Cardinality({place \in ValidPlaces : SampleAt(place) <= v}) >= k

\* twice the median of the valid samples
TwiceMedian ==
    KthSample((Cardinality(ValidPlaces) + 1) \div 2) + KthSample(Cardinality(ValidPlaces) \div 2 + 1)

\* C29: the pair clean_history works with is the one of the store as it was called
\* with, for every series; an iteration changes at most one series and neither the
\* labels nor the pair; a series of the store differs from the one it was called with
\* only by being what _smooth_series returns for that one, under that pair, with fixes
\* counted
C29_ThresholdsOnceAndFrame ==
    /\ [](hpc # "idle" => glob = GetGlobalThresholds(original))
    /\ [][hpc = "loop" =>
            /\ UNCHANGED <<glob, labels, original>>
            /\ Cardinality({k \in SeriesOf(items) :
                               items'[k[1]][k[2]] # items[k[1]][k[2]]}) <= 1]_vars
    /\ [](hpc # "idle" =>
            /\ SeriesOf(items) = SeriesOf(original)
            /\ \A k \in SeriesOf(original) :
                  LET before == original[k[1]][k[2]]
                      after == items[k[1]][k[2]]
                      t == GetGlobalThresholds(original)
                      rs == SmoothSeries(before, t.min, t.thresh, 1)
                  IN /\ after # before =>
                          \E r \in rs : ~r.error /\ r.count > 0 /\ r.series = after
                     /\ (hpc = "done" /\ \A r \in rs : r.count > 0) => after # before
                     /\ ((\A n \in DOMAIN todo : todo[n] # k) /\ hpc # "RecursionError") => \E r \in rs : r.series = after)

\* clean_history returned: a level series was changed under the pair of the whole
\* store, and another series is as it was
C29_Witness ==
    /\ hpc = "done"
    /\ total_fixes > 0
    /\ \E k \in SeriesOf(original) :
          /\ original[k[1]][k[2]] = <<100000, 100000, 100000, 100000>>
          /\ items[k[1]][k[2]] # original[k[1]][k[2]]
    /\ \E k \in SeriesOf(original) :
          /\ original[k[1]][k[2]] = <<500000, 500000, 500000, 500000>>
          /\ items[k[1]][k[2]] = original[k[1]][k[2]]

\* C30: without a sample above 0.001 in the store the pair is 0.05 and 0.15;
\* otherwise it is 0.45 and 1.35 times the median of the samples above 0.001 of all
\* metrics of all entities; either way 0 < glob_min < glob_thresh
C30_ThresholdsFromMedian ==
    hpc # "idle" =>
        /\ ValidPlaces = {} => glob = [min |-> 5000 * ThrDen, thresh |-> 15000 * ThrDen]
        /\ ValidPlaces # {} => glob = [min |-> TwiceMedian * 45, thresh |-> TwiceMedian * 135]
        /\ 0 < glob.min
        /\ glob.min < glob.thresh

\* the store holds an even number of samples above 0.001 and the middle two differ
C30_Witness ==
    /\ hpc # "idle"
    /\ Cardinality(ValidPlaces) % 2 = 0
    /\ ValidPlaces # {}
    /\ KthSample(Cardinality(ValidPlaces) \div 2) # KthSample(Cardinality(ValidPlaces) \div 2 + 1)
    /\ glob.min = TwiceMedian * 45

----------------------------------------------------------------------------
(* The crawl *)

\* C13: when the crawl terminates, the discovered ids are exactly the ids of the
\* pages that batch_call returned without an item-level error
C13_IdsAreUnionOfPages == cpc = "done" => all_user_ids = returned_ids

\* the crawl terminated after pages of different parents and of different rounds
\* that share ids
C13_Witness ==
    /\ cpc = "done"
    /\ {<<1, 0>>, <<1, 1>>, <<2, 0>>} \subseteq processed \ failing
    /\ PageItems(<<1, 1>>) \cap PageItems(<<2, 0>>) # {}
    /\ all_user_ids # {}

\* the for loop is at a result that carries an item-level error
AtErrorResult ==
    /\ cpc = "results"
    /\ ci < Len(results)
    /\ ci < Len(chunk)
    /\ PageOf(results[ci + 1]).error

\* the server has no error on the pages of req's parent that come before req
ChainReaches(req) == \A c \in 0 .. req[2] - 1 : <<req[1], c>> \notin failing

\* C14: a result with an item-level error adds nothing to the id set, enqueues
\* nothing and does not end the crawl; and a crawl that met such a result has, when
\* it terminates, processed every entry of the other parents up to the end of
\* their cursor chains
C14_ErrorDropsOneBranch ==
    /\ [][AtErrorResult =>
            /\ all_user_ids' = all_user_ids
            /\ queue' = queue
            /\ cpc' = "results"]_vars
    /\ []((cpc = "done" /\ skipped # {}) =>
            \A e \in skipped : \A req \in Requests :
                (req[1] # e[1] /\ ChainReaches(req)) => req \in processed)

\* the for loop is at a result, and what it does with it
AtResult == cpc = "results" /\ ci < Len(results) /\ ci < Len(chunk) /\ ci' = ci + 1

\* C27: a continuation is enqueued with the parent of the entry whose own response
\* returned the cursor, and only for a page without error that has a next cursor;
\* the entries of a parent are requested in cursor order, none twice; the crawl
\* raises only when batch_call does, and when it terminates the worklist is empty
\* and every page that the cursor chains reach was examined
C27_CursorChainPerParent ==
    /\ [][AtResult =>
            LET entry == chunk[ci + 1]
                res == results[ci + 1]
            IN IF Len(queue') > Len(queue)
               THEN /\ res = ServerElement(ChunkOf(ci + 1), PlaceOf(ci + 1))
                    /\ entry \notin failing
                    /\ NextCursor(entry) # 0
                    /\ queue' = Append(queue, <<entry[1], NextCursor(entry)>>)
               ELSE /\ queue' = queue
                    /\ \/ entry \in failing
                       \/ NextCursor(entry) = 0
                       \/ res = Placeholder]_vars
    /\ [](\A n \in DOMAIN queue :
              /\ queue[n] \notin processed
              /\ \A m \in DOMAIN queue : queue[m] = queue[n] => m = n
              /\ queue[n][2] > 0 => <<queue[n][1], queue[n][2] - 1>> \in processed \ skipped)
    /\ [](cpc = "raised" => outcome = "raised")
    /\ [](cpc = "done" =>
              /\ queue = <<>>
              /\ \A req \in Requests : ChainReaches(req) <=> req \in processed)

----------------------------------------------------------------------------
(* The spike cleaner *)

\* the window of `size` samples at position p of s qualifies as a group: it ends
\* before the last sample, and each of its samples exceeds both 1.3 times the value
\* interpolated for it between the neighbours of the window and the threshold
Qualifies(s, p, size, thresh) ==
    /\ p + size <= Len(s)
    /\ \A n \in p .. p + size - 1 :
          /\ s[n] * 10 * (size + 1) >
                 13 * (s[p - 1] * (size + 1) + (s[p + size] - s[p - 1]) * (n - p + 1))
          /\ s[n] * ThrDen > thresh

QualifyingSizes(s, p, thresh) == {size \in 2 .. 5 : Qualifies(s, p, size, thresh)}

SetMax(S) == CHOOSE x \in S : \A y \in S : x >= y

\* s with the `size` samples from position p overwritten by their interpolated
\* values, rounded to 4 decimals
Interpolated(s, p, size) ==
    Products([n \in 1 .. Len(s) |->
                 IF n >= p /\ n < p + size
                 THEN Round4(s[p - 1] * (size + 1) + (s[p + size] - s[p - 1]) * (n - p + 1),
                             size + 1)
                 ELSE {s[n]}])

\* the scan of _smooth_series reaches the group test at position p of s
AtGroupTest(s, p, min_abs) ==
    /\ p > 1
    /\ p < Len(s)
    /\ ~BelowMin(s[p], 1, min_abs)
    /\ s[p - 1] > Epsilon

\* C28: where windows of several sizes qualify at a position of the scan, the
\* samples of the largest are overwritten by their interpolated values, its size is
\* added to the count, and the scan goes on behind it
C28_LargestGroupWins ==
    spc = "pass" =>
        \A p \in 2 .. Len(cleaned) - 1 :
            (/\ AtGroupTest(cleaned, p, min_abs_val)
             /\ Cardinality(QualifyingSizes(cleaned, p, min_val_thresh)) > 1) =>
                LET size == SetMax(QualifyingSizes(cleaned, p, min_val_thresh))
                IN Scan(cleaned, p, 0, min_abs_val, min_val_thresh) =
                      UNION {Scan(r, p + size, size, min_abs_val, min_val_thresh) :
                                r \in Interpolated(cleaned, p, size)}

\* a pass is about to scan a series in which windows of 4, 3 and 2 samples qualify
\* at the first position
C28_Witness ==
    /\ spc = "pass"
    /\ Len(cleaned) > 5
    /\ AtGroupTest(cleaned, 2, min_abs_val)
    /\ QualifyingSizes(cleaned, 2, min_val_thresh) = {2, 3, 4}

\* C6: _smooth_series terminates: the nesting of its calls never reaches the limit
C6_Terminates == spc # "RecursionError"

\* where the nesting limit is reached, the last pass counted fixes and left the
\* series as it was: every further pass would do the same
OverflowIsLoop ==
    spc = "RecursionError" =>
        \E pass \in Pass(cleaned, min_abs_val, min_val_thresh) :
            pass.series = cleaned /\ pass.count > 0

\* C7: _smooth_series applied to the (c, k) it returned, with the same thresholds,
\* returns (c, 0)
C7_Idempotent ==
    (run = 2 /\ spc # "pass") =>
        /\ spc = "done"
        /\ cleaned = prior.series
        /\ changes_count = 0

\* the second call returned, on a result that the first call reached by fixes
C7_Witness ==
    /\ run = 2
    /\ spc = "done"
    /\ prior.count > 0
    /\ prior.series # <<>>

StrictlyMonotonic(s) ==
    \/ \A n \in 1 .. Len(s) - 1 : s[n] < s[n + 1]
    \/ \A n \in 1 .. Len(s) - 1 : s[n] > s[n + 1]

\* no sample with two neighbours exceeds both their average times
\* THRESHOLD_MULTIPLIER and the global threshold
NoSpike(s, thresh) ==
    \A n \in 2 .. Len(s) - 1 : ~IsOutlier(s[n], s[n - 1] + s[n + 1], 2, thresh)

\* the call has returned its input with 0 fixes
ReturnedUnchanged ==
    /\ spc = "done"
    /\ cleaned = series
    /\ changes_count = 0

\* C8 as stated: a strictly monotonic series without such a sample is returned
\* unchanged with 0 fixes
C8_MonotonicUnchanged ==
    (run = 1 /\ spc # "pass" /\ StrictlyMonotonic(series) /\ NoSpike(series, min_val_thresh))
        => ReturnedUnchanged

\* no sample with two neighbours is below min_abs_val, and no window of 2 to 5
\* samples is a group outlier
NoDipNoGroup(s, min_abs, thresh) ==
    \A n \in 2 .. Len(s) - 1 :
        /\ s[n] * ThrDen >= min_abs
        /\ \A size \in 2 .. 5 : ~IsGroupOutlier(s, n, size, thresh)

\* C8 amended: a strictly monotonic series without such a sample, without a sample
\* below min_abs_val between its ends and without a group outlier is returned
\* unchanged with 0 fixes
C8_MonotonicCleanUnchanged ==
    (/\ run = 1
     /\ spc # "pass"
     /\ StrictlyMonotonic(series)
     /\ NoSpike(series, min_val_thresh)
     /\ NoDipNoGroup(series, min_abs_val, min_val_thresh))
        => ReturnedUnchanged

\* a strictly monotonic series of 4 samples or more, free of spikes, dips and
\* groups, was returned
C8_Witness ==
    /\ run = 1
    /\ spc = "done"
    /\ Len(series) >= 4
    /\ StrictlyMonotonic(series)
    /\ NoSpike(series, min_val_thresh)
    /\ NoDipNoGroup(series, min_abs_val, min_val_thresh)

\* s is b everywhere but at position q, which is neither end of it
ConstantBut(s, b, q) ==
    /\ q \in 2 .. Len(s) - 1
    /\ \A n \in 1 .. Len(s) : n # q => s[n] = b

\* the series is constant at a baseline b of 4 decimals, b >= min_abs_val and
\* b > 0.001, but for the sample v at q, v > b * 1.3 and v > min_val_thresh
SpikeOnBaseline(b, q) ==
    /\ run = 1
    /\ ConstantBut(series, b, q)
    /\ b % Unit = 0
    /\ b * ThrDen >= min_abs_val
    /\ b > Epsilon
    /\ series[q] * 10 > b * THRESHOLD_MULTIPLIER
    /\ series[q] * ThrDen > min_val_thresh

\* C9: a series constant at such a baseline b but for one such sample is returned
\* as the all-b series with 1 fix; so is [1, 1, 1, 10, 1, 1] under (0.05, 0.15)
C9_SingleSpikeRemoved ==
    \A b \in Samples \cup {100000} : \A q \in 2 .. MaxLen + 1 :
        (SpikeOnBaseline(b, q) /\ spc # "pass") =>
            /\ spc = "done"
            /\ cleaned = [n \in 1 .. Len(series) |-> b]
            /\ changes_count = 1

\* _smooth_series([1, 1, 1, 10, 1, 1], 0.05, 0.15) has returned
C9_Witness ==
    /\ SpikeOnBaseline(100000, 4)
    /\ Len(series) = 6
    /\ series[4] = 1000000
    /\ min_abs_val = FallbackThresholds.min
    /\ min_val_thresh = FallbackThresholds.thresh
    /\ spc = "done"

\* the series is three samples between two baseline samples (each above 0.001 and
\* not below min_abs_val), and the three are a group outlier for the window size 3
PlateauOfThree ==
    /\ run = 1
    /\ Len(series) = 5
    /\ \A n \in {1, 5} : series[n] > Epsilon /\ series[n] * ThrDen >= min_abs_val
    /\ IsGroupOutlier(series, 2, 3, min_val_thresh)

\* C10: the three samples of such a plateau are replaced by the interpolation
\* between the two boundary samples, rounded to 4 decimals, and 3 fixes are counted
C10_PlateauInterpolated ==
    (PlateauOfThree /\ spc # "pass") =>
        /\ spc = "done"
        /\ cleaned \in ReplaceGroup(series, 2, 3)
        /\ changes_count = 3

\* C31: _smooth_series leaves the list it was called with as it is; what it returns
\* is as long as that list and has its first and its last sample; a list of fewer
\* than 3 samples, and any list for which it counts no fix, is returned as it is
C31_InputAndEndsKept ==
    /\ [][spc = "pass" => series' = series]_vars
    /\ [](spc = "done" =>
            /\ Len(cleaned) = Len(series)
            /\ Len(series) > 0 =>
                  cleaned[1] = series[1] /\ cleaned[Len(series)] = series[Len(series)]
            /\ Len(series) < 3 => cleaned = series /\ changes_count = 0
            /\ changes_count = 0 => cleaned = series)

\* _smooth_series returned a series whose group of samples next to the last one
\* was overwritten
C31_Witness ==
    /\ spc = "done"
    /\ run = 1
    /\ changes_count > 0
    /\ Len(series) > 3
    /\ cleaned[Len(series) - 1] # series[Len(series) - 1]
    /\ cleaned[Len(series) - 2] # series[Len(series) - 2]

\* C32: no sample of a returned series but the first and the last is below
\* min_abs_val
C32_NoDipRemains ==
    spc = "done" =>
        \A n \in 2 .. Len(cleaned) - 1 : cleaned[n] * ThrDen >= min_abs_val

\* _smooth_series returned for a series that had a dip, and for one whose first
\* pass left a sample below min_abs_val
C32_Witness ==
    /\ spc = "done"
    /\ run = 1
    /\ depth > 2
    /\ \E n \in 2 .. Len(series) - 1 : series[n] * ThrDen < min_abs_val

====
